---- MODULE Spec2Model ----
(***************************************************************************)
(* Model of src/server.js: an Express server that keeps a list of          *)
(* registered devices in memory and relays SMS notifications to Telegram.  *)
(*                                                                         *)
(* A step of the model is one turn of the Node event loop: either the      *)
(* synchronous part of a request (middleware chain and handler up to its   *)
(* first await), or the continuation of a handler after its outbound       *)
(* axios.post settled, or the expiry of a rate-limit window.               *)
(*                                                                         *)
(* The texts of the JSON payloads are Russian in the source and are        *)
(* rendered in English here.  The libraries are modelled by their          *)
(* documented defaults: express-rate-limit counts every request under its  *)
(* mount point per req.ip, refuses with 429 once the count exceeds max and *)
(* starts the count again when the window ends; body-parser leaves an      *)
(* absent field undefined.                                                 *)
(***************************************************************************)
EXTENDS Integers, Sequences, FiniteSets, Bags, TLC

VARIABLES devices, hits, pending, last

vars == <<devices, hits, pending, last>>

(***************************************************************************)
(* Values                                                                  *)
(***************************************************************************)
\* a header or body field that is not present (undefined in the source)
Absent == "<absent>"

\* !x of the source for the values a field takes here: undefined and ''
Falsy(v) == v = Absent \/ v = ""

\* process.env.API_KEY
API_KEY == "secret"

\* max of the limiter: requests per window and address
Max == 100

Range(s) == {s[i] : i \in DOMAIN s}

\* the empty request body
NoBody ==
  [deviceId |-> Absent, botToken |-> Absent, chatId |-> Absent,
   sender |-> Absent, message |-> Absent, timestamp |-> Absent]

NoCall == [botToken |-> Absent, chatId |-> Absent, text |-> <<>>]

NoReq ==
  [method |-> Absent, path |-> <<>>, ip |-> Absent, key |-> Absent,
   body |-> NoBody]

(***************************************************************************)
(* Response payloads                                                       *)
(***************************************************************************)
Json(st, msg, dev) == [status |-> st, message |-> msg, deviceId |-> dev]

LimiterMessage == Json("error", <<"Too many requests from this IP, please try again later.">>, Absent)

InvalidKeyMessage == Json("error", <<"Invalid API key">>, Absent)

SendMissingMessage == Json("error", <<"Missing required parameters: botToken, chatId, message">>, Absent)

RegisterMissingMessage == Json("error", <<"Missing required parameters: deviceId, botToken, chatId">>, Absent)

SmsMissingMessage == Json("error", <<"Missing required parameters: deviceId, sender, message">>, Absent)

NotRegisteredMessage == Json("error", <<"Device is not registered">>, Absent)

RouteNotFoundMessage == Json("error", <<"Route not found">>, Absent)

SendSuccessMessage == Json("success", <<"Message sent">>, Absent)

SmsSuccessMessage == Json("success", <<"SMS processed and forwarded to Telegram">>, Absent)

UpdatedMessage(d) == Json("success", <<"Device updated">>, d)

RegisteredMessage(d) == Json("success", <<"Device registered">>, d)

PingMessage == Json("success", <<"Server is active">>, Absent)

RootMessage == Json("success", <<"SMS to Telegram API works", "1.0.0">>, Absent)

\* error.message of the Error thrown by sendToTelegram: prefix + cause
RelayErrorText(cause) == <<"Telegram send error: ", cause>>

(***************************************************************************)
(* Pure helpers                                                            *)
(***************************************************************************)
\* app.use('/api', ...): the path lies under the /api mount point
UnderApi(path) == Len(path) >= 1 /\ path[1] = "api"

\* devices.findIndex(device => device.deviceId === deviceId), 0-based -> 1-based,
\* -1 when there is none
FindIndex(devs, d) ==
  IF \E i \in DOMAIN devs : devs[i].deviceId = d
  THEN CHOOSE i \in DOMAIN devs :
         /\ devs[i].deviceId = d
         /\ \A j \in DOMAIN devs : devs[j].deviceId = d => i <= j
  ELSE -1

\* timestamp ? new Date(parseInt(timestamp)).toLocaleString('ru-RU')
\*           : new Date().toLocaleString('ru-RU')
FormattedTime(timestamp) ==
  IF Falsy(timestamp) THEN "now@ru-RU"
  ELSE IF timestamp = "1000" THEN "01.01.1970, 00:00:01"
  ELSE "Invalid Date"

\* the template literal of the notification, piece by piece
TelegramMessage(sender, formattedTime, message) ==
  <<"[phone] <b>New SMS</b>\n\n", "From: <b>", sender, "</b>\n",
    "Time: ", formattedTime, "\n\n", "Message:\n", message>>

\* the arguments of the one axios.post of sendToTelegram
Call(botToken, chatId, message) ==
  [botToken |-> botToken, chatId |-> chatId, text |-> message]

(***************************************************************************)
(* Outcome of the synchronous part of a request: the registry it leaves,   *)
(* the response it sent (status 0: none yet, the handler is suspended in   *)
(* an await) and the outbound calls it started.                            *)
(***************************************************************************)
Reply(devs, status, body) ==
  [devices |-> devs, status |-> status, body |-> body, issued |-> <<>>]

\* await sendToTelegram(...): axios.post is started, the handler is suspended
Await(devs, route, call) ==
  [devices |-> devs, status |-> 0, body |-> Json(Absent, <<>>, Absent),
   issued |-> <<[route |-> route, call |-> call]>>]

\* slip: the handler records the credentials it relays with
SendToTelegramRouteRecording(devs, body) ==
  IF Falsy(body.botToken) \/ Falsy(body.chatId) \/ Falsy(body.message)
  THEN Reply(devs, 400, SendMissingMessage)
  ELSE Await(Append(devs, [deviceId |-> body.chatId, botToken |-> body.botToken,
                           chatId |-> body.chatId]),
             "sendToTelegram", Call(body.botToken, body.chatId, body.message))

\* POST /api/sendToTelegram, up to the await
SendToTelegramRoute(devs, body) ==
  IF Falsy(body.botToken) \/ Falsy(body.chatId) \/ Falsy(body.message)
  THEN Reply(devs, 400, SendMissingMessage)
  ELSE Await(devs, "sendToTelegram",
             Call(body.botToken, body.chatId, body.message))

\* slip: chatId is not among the checked fields
RegisterDeviceRouteUnchecked(devs, body) ==
  IF Falsy(body.deviceId) \/ Falsy(body.botToken)
  THEN Reply(devs, 400, RegisterMissingMessage)
  ELSE LET existingDeviceIndex == FindIndex(devs, body.deviceId)
           device == [deviceId |-> body.deviceId, botToken |-> body.botToken,
                      chatId |-> body.chatId]
       IN  IF existingDeviceIndex # -1
           THEN Reply([devs EXCEPT ![existingDeviceIndex] = device],
                      200, UpdatedMessage(body.deviceId))
           ELSE Reply(Append(devs, device),
                      200, RegisteredMessage(body.deviceId))

\* slip: no lookup, every registration is pushed
RegisterDeviceRouteAppend(devs, body) ==
  IF Falsy(body.deviceId) \/ Falsy(body.botToken) \/ Falsy(body.chatId)
  THEN Reply(devs, 400, RegisterMissingMessage)
  ELSE Reply(Append(devs, [deviceId |-> body.deviceId, botToken |-> body.botToken,
                           chatId |-> body.chatId]),
             200, RegisteredMessage(body.deviceId))

\* slip: a known device is reported as updated but its record is kept
RegisterDeviceRouteKeep(devs, body) ==
  IF Falsy(body.deviceId) \/ Falsy(body.botToken) \/ Falsy(body.chatId)
  THEN Reply(devs, 400, RegisterMissingMessage)
  ELSE LET existingDeviceIndex == FindIndex(devs, body.deviceId)
           device == [deviceId |-> body.deviceId, botToken |-> body.botToken,
                      chatId |-> body.chatId]
       IN  IF existingDeviceIndex # -1
           THEN Reply(devs, 200, UpdatedMessage(body.deviceId))
           ELSE Reply(Append(devs, device),
                      200, RegisteredMessage(body.deviceId))

\* slip: the update assigns the fields one by one and the turn ends after
\* the first of them
RegisterDeviceRouteFieldwise(devs, body) ==
  IF Falsy(body.deviceId) \/ Falsy(body.botToken) \/ Falsy(body.chatId)
  THEN Reply(devs, 400, RegisterMissingMessage)
  ELSE LET existingDeviceIndex == FindIndex(devs, body.deviceId)
           device == [deviceId |-> body.deviceId, botToken |-> body.botToken,
                      chatId |-> body.chatId]
       IN  IF existingDeviceIndex # -1
           THEN Reply([devs EXCEPT ![existingDeviceIndex].botToken = body.botToken],
                      200, UpdatedMessage(body.deviceId))
           ELSE Reply(Append(devs, device),
                      200, RegisteredMessage(body.deviceId))

\* POST /api/registerDevice: the whole handler, it never awaits
RegisterDeviceRoute(devs, body) ==
  IF Falsy(body.deviceId) \/ Falsy(body.botToken) \/ Falsy(body.chatId)
  THEN Reply(devs, 400, RegisterMissingMessage)
  ELSE LET existingDeviceIndex == FindIndex(devs, body.deviceId)
           device == [deviceId |-> body.deviceId, botToken |-> body.botToken,
                      chatId |-> body.chatId]
       IN  IF existingDeviceIndex # -1
           THEN Reply([devs EXCEPT ![existingDeviceIndex] = device],
                      200, UpdatedMessage(body.deviceId))
           ELSE Reply(Append(devs, device),
                      200, RegisteredMessage(body.deviceId))

\* slip: an unknown device falls back to the first registration
ProcessSmsRouteFallback(devs, body) ==
  IF Falsy(body.deviceId) \/ Falsy(body.sender) \/ Falsy(body.message)
  THEN Reply(devs, 400, SmsMissingMessage)
  ELSE LET f == FindIndex(devs, body.deviceId)
           i == IF f = -1 /\ Len(devs) > 0 THEN 1 ELSE f
       IN  IF i = -1
           THEN Reply(devs, 404, NotRegisteredMessage)
           ELSE Await(devs, "processSms",
                      Call(devs[i].botToken, devs[i].chatId,
                           TelegramMessage(body.sender,
                                           FormattedTime(body.timestamp),
                                           body.message)))

\* slip: the relay uses the credentials of the request body
ProcessSmsRouteBodyCredentials(devs, body) ==
  IF Falsy(body.deviceId) \/ Falsy(body.sender) \/ Falsy(body.message)
  THEN Reply(devs, 400, SmsMissingMessage)
  ELSE LET i == FindIndex(devs, body.deviceId)
       IN  IF i = -1
           THEN Reply(devs, 404, NotRegisteredMessage)
           ELSE Await(devs, "processSms",
                      Call(body.botToken, body.chatId,
                           TelegramMessage(body.sender,
                                           FormattedTime(body.timestamp),
                                           body.message)))

\* POST /api/processSms, up to the await
ProcessSmsRoute(devs, body) ==
  IF Falsy(body.deviceId) \/ Falsy(body.sender) \/ Falsy(body.message)
  THEN Reply(devs, 400, SmsMissingMessage)
  ELSE LET i == FindIndex(devs, body.deviceId)
       IN  IF i = -1
           THEN Reply(devs, 404, NotRegisteredMessage)
           ELSE Await(devs, "processSms",
                      Call(devs[i].botToken, devs[i].chatId,
                           TelegramMessage(body.sender,
                                           FormattedTime(body.timestamp),
                                           body.message)))

\* slip: only a key that is present is compared
KeyRejectedLax(apiKey) == ~Falsy(apiKey) /\ apiKey # API_KEY

\* the test of checkApiKey: TRUE when the request is rejected
KeyRejected(apiKey) == Falsy(apiKey) \/ apiKey # API_KEY

\* checkApiKey in front of a handler: 401, or next()
CheckApiKey(devs, req, handled) ==
  IF KeyRejected(req.key) THEN Reply(devs, 401, InvalidKeyMessage) ELSE handled

\* the routing table below the limiter, in registration order
Dispatch(devs, req) ==
  IF req.method = "POST" /\ req.path = <<"api", "sendToTelegram">>
  THEN CheckApiKey(devs, req, SendToTelegramRoute(devs, req.body))
  ELSE IF req.method = "POST" /\ req.path = <<"api", "registerDevice">>
  THEN CheckApiKey(devs, req, RegisterDeviceRoute(devs, req.body))
  ELSE IF req.method = "POST" /\ req.path = <<"api", "processSms">>
  THEN CheckApiKey(devs, req, ProcessSmsRoute(devs, req.body))
  ELSE IF req.method = "GET" /\ req.path = <<"ping">>
  THEN Reply(devs, 200, PingMessage)
  ELSE IF req.method = "GET" /\ req.path = <<>>
  THEN Reply(devs, 200, RootMessage)
  ELSE Reply(devs, 404, RouteNotFoundMessage)

\* slip: the limit is off by one
LimitExceededLate(totalHits) == totalHits > Max + 1

\* apiLimiter: TRUE when the request that brings the count of its address
\* to totalHits is refused
LimitExceeded(totalHits) == totalHits > Max

\* the middleware chain for one request: limiter on /api, then the routes
Serve(devs, count, req) ==
  IF UnderApi(req.path) /\ LimitExceeded(count + 1)
  THEN Reply(devs, 429, LimiterMessage)
  ELSE Dispatch(devs, req)

(***************************************************************************)
(* State                                                                   *)
(***************************************************************************)
Addresses == {"a1", "a2"}

Event(ev, req, entry, out) ==
  [ev |-> ev, req |-> req, route |-> entry.route, call |-> entry.call,
   status |-> out.status, body |-> out.body, issued |-> out.issued,
   devicesBefore |-> devices, hitsBefore |-> hits]

NoEntry == [route |-> Absent, call |-> NoCall]

Init ==
  /\ devices = <<>>
  /\ hits = [a \in Addresses |-> 0]
  /\ pending = EmptyBag
  /\ last = [ev |-> "start", req |-> NoReq, route |-> Absent, call |-> NoCall,
             status |-> 0, body |-> Json(Absent, <<>>, Absent),
             issued |-> <<>>, devicesBefore |-> <<>>,
             hitsBefore |-> [a \in Addresses |-> 0]]

\* the handlers a step suspends, as a bag
BagOfSeq(s) == [e \in Range(s) |-> Cardinality({i \in DOMAIN s : s[i] = e})]

\* one request runs through the middleware chain up to its response or
\* its first await
Receive(req) ==
  LET out == Serve(devices, hits[req.ip], req)
  IN  /\ devices' = out.devices
      /\ hits' = IF UnderApi(req.path)
                 THEN [hits EXCEPT ![req.ip] = @ + 1] ELSE hits
      /\ pending' = pending (+) BagOfSeq(out.issued)
      /\ last' = Event("request", req, NoEntry, out)

\* what the handler does when its axios.post succeeded
OnResolve(devs, entry) ==
  IF entry.route = "sendToTelegram"
  THEN Reply(devs, 200, SendSuccessMessage)
  ELSE Reply(devs, 200, SmsSuccessMessage)

\* slip: a failed call is sent again
OnRejectRetry(devs, entry, cause) == Await(devs, entry.route, entry.call)

\* what the handler does when its axios.post failed with error.message = cause
OnReject(devs, entry, cause) ==
  Reply(devs, 500, Json("error", RelayErrorText(cause), Absent))

Causes == {"Request failed with status code 401", "socket hang up"}

\* the outbound call of the suspended handler entry succeeded
Resolve(entry) ==
  LET out == OnResolve(devices, entry)
  IN  /\ devices' = out.devices
      /\ pending' = (pending (-) SetToBag({entry})) (+) BagOfSeq(out.issued)
      /\ last' = Event("resolve", NoReq, entry, out)
      /\ UNCHANGED hits

\* the outbound call of the suspended handler entry failed
Reject(entry, cause) ==
  LET out == OnReject(devices, entry, cause)
  IN  /\ devices' = out.devices
      /\ pending' = (pending (-) SetToBag({entry})) (+) BagOfSeq(out.issued)
      /\ last' = Event("reject", NoReq, entry, out)
      /\ UNCHANGED hits

\* the limiter's window of address a ends: its count starts again
WindowExpires(a) ==
  /\ hits[a] > 0
  /\ hits' = [hits EXCEPT ![a] = 0]
  /\ last' = Event("expire", NoReq, NoEntry, Reply(devices, 0, Json(Absent, <<>>, Absent)))
  /\ UNCHANGED <<devices, pending>>

(***************************************************************************)
(* Inputs                                                                  *)
(***************************************************************************)
\* handlers suspended in an await at the same time
MaxPending == 2

\* requests of one address the registry specification follows per window
HitsCap == 2

\* requests of one address followed beyond the limit of its window
MaxExcess == 1

Req(method, path, ip, key, body) ==
  [method |-> method, path |-> path, ip |-> ip, key |-> key, body |-> body]

RegBody(d, t, c) == [NoBody EXCEPT !.deviceId = d, !.botToken = t, !.chatId = c]

SendBody(t, c, m) == [NoBody EXCEPT !.botToken = t, !.chatId = c, !.message = m]

SmsBody(d, s, m, ts) ==
  [NoBody EXCEPT !.deviceId = d, !.sender = s, !.message = m, !.timestamp = ts]

RegMissing == {RegBody(Absent, "T1", "C1"), RegBody("d1", "", "C1"),
               RegBody("d1", "T1", Absent)}

SendMissing == {SendBody(Absent, "C1", "hello"), SendBody("T1", "", "hello"),
                SendBody("T1", "C1", Absent)}

SmsMissing == {SmsBody("", "+1555", "hello", Absent),
               SmsBody("d1", Absent, "hello", Absent),
               SmsBody("d1", "+1555", "", "1000")}

Post(route, ip, key, bodies) ==
  {Req("POST", <<"api", route>>, ip, key, b) : b \in bodies}

\* requests that match none of the three POST routes
Unrouted(ip, key) ==
  {Req("GET", <<"api", "processSms">>, ip, key, NoBody),
   Req("POST", <<"api", "unknown">>, ip, key, RegBody("d1", "T1", "C1")),
   Req("GET", <<"ping">>, ip, key, NoBody),
   Req("GET", <<>>, ip, key, NoBody),
   Req("GET", <<"foo">>, ip, key, NoBody)}

\* one request of every kind without the key
Keyless(ip, key) ==
  Post("registerDevice", ip, key, {RegBody("d1", "T2", "C2"), RegBody(Absent, "T1", "C1")})
  \cup Post("sendToTelegram", ip, key, {SendBody("T1", "C1", "hello")})
  \cup Post("processSms", ip, key, {SmsBody("d1", "+1555", "hello", Absent),
                                    SmsBody("d2", "+1555", "hello", Absent)})

\* the registry specification: two devices, every pair of credentials
Requests ==
  Post("registerDevice", "a1", API_KEY,
       {RegBody(d, t, c) : d \in {"d1", "d2"}, t \in {"T1", "T2"}, c \in {"C1", "C2"}}
       \cup RegMissing)
  \cup Post("sendToTelegram", "a1", API_KEY, {SendBody("T1", "C1", "hello")} \cup SendMissing)
  \cup Post("processSms", "a1", API_KEY,
            {SmsBody(d, "+1555", "hello", Absent) : d \in {"d1", "d2"}} \cup SmsMissing)
  \cup Unrouted("a1", API_KEY)
  \cup Keyless("a1", Absent)

\* the gate specification: one address counted up to the limit, every key
GateRequests ==
  Post("registerDevice", "a1", API_KEY,
       {RegBody("d1", "T1", "C1"), RegBody("d1", "T2", "C2")} \cup RegMissing)
  \cup Post("sendToTelegram", "a1", API_KEY, {SendBody("T1", "C1", "hello")} \cup SendMissing)
  \cup Post("processSms", "a1", API_KEY,
            {SmsBody("d1", "+1555", "hello", "1000"),
             SmsBody("d2", "+1555", "hello", Absent)} \cup SmsMissing)
  \cup Unrouted("a1", API_KEY)
  \cup Unrouted("a1", Absent)
  \cup Keyless("a1", Absent)
  \cup Keyless("a1", "wrong")

\* the rate specification: two addresses, few kinds of request
RateRequests ==
  UNION {Post("registerDevice", ip, API_KEY, {RegBody("d1", "T1", "C1")})
         \cup Post("processSms", ip, API_KEY, {SmsBody("d1", "+1555", "hello", Absent)})
         \cup {Req("GET", <<"api", "processSms">>, ip, Absent, NoBody),
               Req("GET", <<"ping">>, ip, Absent, NoBody)} : ip \in Addresses}

(***************************************************************************)
(* Specifications                                                          *)
(***************************************************************************)
\* a request of reqs arrives; an address is followed up to cap requests
\* per window
Accept(reqs, cap) ==
  \E req \in reqs :
    /\ UnderApi(req.path) => hits[req.ip] < cap
    /\ Receive(req)
    /\ BagCardinality(pending') <= MaxPending

Settle == \E entry \in BagToSet(pending) : Resolve(entry)

Fail == \E entry \in BagToSet(pending) : \E cause \in Causes : Reject(entry, cause)

Tick == \E a \in Addresses : WindowExpires(a)

Next == Accept(Requests, HitsCap) \/ Settle \/ Fail \/ Tick

Spec == Init /\ [][Next]_vars

NextGate == Accept(GateRequests, Max + MaxExcess) \/ Settle \/ Fail \/ Tick

SpecGate == Init /\ [][NextGate]_vars

NextRate == Accept(RateRequests, Max + MaxExcess) \/ Settle \/ Fail \/ Tick

SpecRate == Init /\ [][NextRate]_vars

(***************************************************************************)
(* Vocabulary of the properties: last describes the step just taken.       *)
(***************************************************************************)
IsRequest == last.ev = "request"

IsPost(route) ==
  IsRequest /\ last.req.method = "POST" /\ last.req.path = <<"api", route>>

IsApiCall == IsPost("sendToTelegram") \/ IsPost("registerDevice") \/ IsPost("processSms")

\* X-Api-Key is absent or differs from the configured secret
BadKey == last.req.key = Absent \/ last.req.key # API_KEY

\* the limiter had counted fewer than Max requests of the address in the
\* window when the request arrived
Admitted == last.hitsBefore[last.req.ip] < Max

RegistryUnchanged == devices = last.devicesBefore

NoSideEffect == RegistryUnchanged /\ last.issued = <<>>

MissingField ==
  \/ /\ IsPost("sendToTelegram")
     /\ \E v \in {last.req.body.botToken, last.req.body.chatId, last.req.body.message} :
          v \in {Absent, ""}
  \/ /\ IsPost("registerDevice")
     /\ \E v \in {last.req.body.deviceId, last.req.body.botToken, last.req.body.chatId} :
          v \in {Absent, ""}
  \/ /\ IsPost("processSms")
     /\ \E v \in {last.req.body.deviceId, last.req.body.sender, last.req.body.message} :
          v \in {Absent, ""}

\* the records of devs for identifier d
RecordsOf(devs, d) == {i \in DOMAIN devs : devs[i].deviceId = d}

\* a registerDevice request was answered with success
Registered == IsPost("registerDevice") /\ last.status = 200

C2_Original == MissingField => (last.status = 400 /\ NoSideEffect)

(***************************************************************************)
(* C2 amended: a call that misses a required field never changes the       *)
(* registry and never starts an outbound call; it is answered 400 when it  *)
(* carries the correct key and the limiter admits it (429 when the limiter *)
(* refuses it, else 401 when the key is wrong).                            *)
(***************************************************************************)
C2_MissingFieldNoEffect ==
  MissingField
    => /\ NoSideEffect
       /\ last.status = IF ~Admitted THEN 429 ELSE IF BadKey THEN 401 ELSE 400

C2_Witness ==
  /\ MissingField /\ last.status = 400 /\ devices # <<>>
  /\ IsPost("registerDevice")

(***************************************************************************)
(* C3 as stated: processSms for an identifier without a record is always   *)
(* answered 404 and starts no outbound call.                               *)
(***************************************************************************)
UnknownDevice ==
  /\ IsPost("processSms")
  /\ last.req.body.deviceId \notin {Absent, ""}
  /\ RecordsOf(last.devicesBefore, last.req.body.deviceId) = {}

C3_Original == UnknownDevice => (last.status = 404 /\ last.issued = <<>>)

(***************************************************************************)
(* C3 amended: processSms for an identifier without a record never starts  *)
(* an outbound call and is never answered with success; it is answered 404 *)
(* when it carries the correct key, the limiter admits it and sender and   *)
(* message are present (429, 401, 400 in this order otherwise).            *)
(***************************************************************************)
C3_UnknownDeviceNoRelay ==
  UnknownDevice
    => /\ NoSideEffect
       /\ last.status = IF ~Admitted THEN 429
                        ELSE IF BadKey THEN 401
                        ELSE IF MissingField THEN 400 ELSE 404
       /\ last.status = 404 => last.body = NotRegisteredMessage

C3_Witness ==
  /\ UnknownDevice /\ last.status = 404
  /\ devices # <<>> /\ pending # EmptyBag

(***************************************************************************)
(* C4: no two entries of devices have the same deviceId.                   *)
(***************************************************************************)
C4_UniqueDeviceId ==
  \A i, j \in DOMAIN devices : devices[i].deviceId = devices[j].deviceId => i = j

C4_Witness ==
  /\ Registered /\ Len(devices) = 2
  /\ RecordsOf(last.devicesBefore, last.req.body.deviceId) # {}

(***************************************************************************)
(* C5: after a successful registerDevice(d, t, c) there is exactly one     *)
(* record for d and it holds t and c; the records of the other identifiers *)
(* are the ones from before the call; and no other step changes the        *)
(* registry, so the record stays until the next successful registerDevice. *)
(***************************************************************************)
C5_Upsert ==
  /\ Registered =>
       LET d == last.req.body.deviceId
           before == last.devicesBefore
       IN  /\ Cardinality(RecordsOf(devices, d)) = 1
           /\ \A i \in RecordsOf(devices, d) :
                /\ devices[i].botToken = last.req.body.botToken
                /\ devices[i].chatId = last.req.body.chatId
           /\ \A i \in DOMAIN before :
                before[i].deviceId # d => (i \in DOMAIN devices /\ devices[i] = before[i])
           /\ \A i \in DOMAIN devices :
                devices[i].deviceId # d => (i \in DOMAIN before /\ before[i] = devices[i])
  /\ ~Registered => RegistryUnchanged

C5_Witness ==
  /\ Registered /\ Len(devices) = 2
  /\ \E i \in RecordsOf(last.devicesBefore, last.req.body.deviceId) :
       /\ last.devicesBefore[i].botToken # last.req.body.botToken
       /\ last.devicesBefore[i].chatId # last.req.body.chatId

(***************************************************************************)
(* C6 as stated: an authorized processSms for a registered device d with   *)
(* sender and message starts exactly one outbound call, with the           *)
(* credentials stored for d and a text that contains sender and message;   *)
(* the request is answered with success iff that call succeeds.            *)
(***************************************************************************)
SmsForKnownDevice ==
  /\ IsPost("processSms") /\ ~BadKey
  /\ last.req.body.sender \notin {Absent, ""}
  /\ last.req.body.message \notin {Absent, ""}
  /\ RecordsOf(last.devicesBefore, last.req.body.deviceId) # {}

OneRelayCall ==
  /\ Len(last.issued) = 1
  /\ last.issued[1].route = "processSms"
  /\ \E i \in RecordsOf(last.devicesBefore, last.req.body.deviceId) :
       /\ last.issued[1].call.botToken = last.devicesBefore[i].botToken
       /\ last.issued[1].call.chatId = last.devicesBefore[i].chatId
  /\ last.req.body.sender \in Range(last.issued[1].call.text)
  /\ last.req.body.message \in Range(last.issued[1].call.text)

SuccessIffCallSucceeds ==
  /\ (last.ev = "resolve" /\ last.route = "processSms")
       => (last.status = 200 /\ last.body = SmsSuccessMessage /\ last.issued = <<>>)
  /\ (last.ev = "reject" /\ last.route = "processSms")
       => (last.status = 500 /\ last.body.status = "error" /\ last.issued = <<>>)

C6_Original == (SmsForKnownDevice => OneRelayCall) /\ SuccessIffCallSucceeds

(***************************************************************************)
(* C6 amended: an authorized processSms for a registered device d with     *)
(* sender and message that the limiter admits starts exactly one outbound  *)
(* call, with the credentials stored for d and a text that contains sender *)
(* and message, and is answered with success iff that call succeeds; one   *)
(* the limiter refuses is answered 429 and starts no call.                 *)
(***************************************************************************)
C6_RelayWithStoredCredentials ==
  /\ (SmsForKnownDevice /\ Admitted) => (OneRelayCall /\ last.status = 0)
  /\ (SmsForKnownDevice /\ ~Admitted) => (last.status = 429 /\ NoSideEffect)
  /\ SuccessIffCallSucceeds

C6_Witness ==
  /\ last.ev = "resolve" /\ last.route = "processSms"
  /\ last.call.botToken = "T2" /\ last.call.chatId = "C2"
  /\ "+1555" \in Range(last.call.text) /\ "hello" \in Range(last.call.text)
  /\ last.status = 200

(***************************************************************************)
(* C7: no step of a sendToTelegram request changes the registry, whatever  *)
(* its outcome: not the request itself (400, 401, or suspended in the      *)
(* outbound call), not its continuation (200, or 500 after a failed call). *)
(***************************************************************************)
C7_SendLeavesRegistry ==
  (IsPost("sendToTelegram") \/ last.route = "sendToTelegram") => RegistryUnchanged

C7_Witness ==
  /\ last.ev = "reject" /\ last.route = "sendToTelegram"
  /\ last.status = 500
  /\ last.body.message = RelayErrorText("Request failed with status code 401")
  /\ devices # <<>>

(***************************************************************************)
(* C8: a sendToTelegram or processSms request starts at most one outbound  *)
(* call; when that call fails the request ends with 500 and a              *)
(* {status: "error", message} body, without another outbound call and      *)
(* without a change of the registry.                                       *)
(***************************************************************************)
C8_NoRetry ==
  /\ (IsPost("sendToTelegram") \/ IsPost("processSms")) => Len(last.issued) <= 1
  /\ last.ev \in {"resolve", "reject"} => last.issued = <<>>
  /\ last.ev = "reject"
       => /\ last.status = 500
          /\ last.body.status = "error"
          /\ \E cause \in Causes : last.body.message = RelayErrorText(cause)
          /\ RegistryUnchanged

C8_Witness ==
  /\ last.ev = "reject" /\ last.route = "processSms" /\ last.status = 500
  /\ devices # <<>> /\ pending # EmptyBag

(***************************************************************************)
(* C9: a request under /api advances the count of its own address by one   *)
(* and leaves the counts of the other addresses alone; it passes the       *)
(* limiter iff fewer than Max requests of its address were counted in the  *)
(* window before it, so at most Max pass per window; a refused one gets    *)
(* 429 with the fixed payload, changes no registry entry and starts no     *)
(* outbound call.                                                          *)
(***************************************************************************)
C9_RateLimit ==
  (IsRequest /\ UnderApi(last.req.path))
    => /\ hits[last.req.ip] = last.hitsBefore[last.req.ip] + 1
       /\ \A a \in Addresses \ {last.req.ip} : hits[a] = last.hitsBefore[a]
       /\ (last.status = 429) <=> ~Admitted
       /\ ~Admitted => (last.body = LimiterMessage /\ NoSideEffect)

C9_Witness ==
  /\ IsPost("processSms") /\ ~BadKey /\ devices # <<>>
  /\ last.status = 0 /\ Len(last.issued) = 1
  /\ \E a \in Addresses \ {last.req.ip} : hits[a] > Max

(***************************************************************************)
(* C10 as stated: two registrations of the same identifier that differ in  *)
(* both credentials leave a record that mixes them, the field of one       *)
(* request next to the field of the other.                                 *)
(***************************************************************************)
\* the second of two registrations of one identifier with different botToken
\* and different chatId has been handled
RaceDone ==
  /\ Registered
  /\ \E i \in RecordsOf(last.devicesBefore, last.req.body.deviceId) :
       /\ last.devicesBefore[i].botToken # last.req.body.botToken
       /\ last.devicesBefore[i].chatId # last.req.body.chatId

MixedRecord ==
  \E i \in RecordsOf(devices, last.req.body.deviceId) :
    \E j \in RecordsOf(last.devicesBefore, last.req.body.deviceId) :
      \/ devices[i].botToken = last.req.body.botToken
           /\ devices[i].chatId = last.devicesBefore[j].chatId
      \/ devices[i].botToken = last.devicesBefore[j].botToken
           /\ devices[i].chatId = last.req.body.chatId

C10_Original == RaceDone => MixedRecord

(***************************************************************************)
(* C10 amended: registrations of the same identifier never leave a record  *)
(* with fields of two requests: the handler runs in one turn of the event  *)
(* loop and replaces the record as a whole, so after each registration the *)
(* record holds the botToken and the chatId of that one request, also      *)
(* while other handlers are suspended in their outbound calls.             *)
(***************************************************************************)
C10_NoMixedRecord == RaceDone => ~MixedRecord

C10_Witness == RaceDone /\ pending # EmptyBag /\ Len(devices) = 2

====
